---- MODULE Spec2Model ----
(***************************************************************************)
(* gcs-export (src/bin/gcs-export.cpp): reads Latitude, Longitude and      *)
(* TimeZone from the FPP settings store, loads the locale JSON file,       *)
(* validates, and writes one JSON document to a fixed path.  The program   *)
(* is run again and again by an external scheduler; the only state that    *)
(* survives a run is the output file.                                      *)
(*                                                                         *)
(* A std::string is a sequence of pieces (each piece a TLA+ string); the   *)
(* empty std::string is << >> and + is \o.  Setting values are sequences   *)
(* of single characters so that atof can scan them.                        *)
(***************************************************************************)
EXTENDS Integers, Sequences, FiniteSets, TLC

VARIABLES
    pc,          \* position of main() in the current run
    root,        \* Json::Value root: present member name -> value
    latStr,      \* std::string latStr
    lonStr,      \* std::string lonStr
    tz,          \* std::string tz
    lat,         \* double lat
    lon,         \* double lon
    ok,          \* bool ok
    localeFile,  \* what this run found at LOCALE_PATH
    outPath,     \* what this run found at OUTPUT_PATH when opening it
    file,        \* the file at OUTPUT_PATH (survives the run)
    stderr,      \* lines this run sent to std::cerr
    calls,       \* collaborator calls and steps of this run, in order
    exitCode,    \* << >> while running, <<c>> once main returned c
    prev         \* the run before this one: its inputs and what it left

vars == <<pc, root, latStr, lonStr, tz, lat, lon, ok, localeFile, outPath,
          file, stderr, calls, exitCode, prev>>

----------------------------------------------------------------------------
(* Paths *)

OUTPUT_PATH == "/home/fpp/media/plugins/GoogleCalendarScheduler/runtime/fpp-env.json"

LOCALE_PATH == "/home/fpp/media/config/locale.json"

----------------------------------------------------------------------------
(* double, and atof on the decimal forms [ws][sign]digits[.digits]          *)

\* a double as sign, decimal mantissa and number of fractional digits
Zero == [neg |-> FALSE, mant |-> 0, scale |-> 0]

\* d == 0.0 (true of +0.0 and of -0.0)
IsZero(d) == d.mant = 0

DigitChars == {"0", "1", "2", "3", "4", "5", "6", "7", "8", "9"}

DigitVal(c) ==
    CASE c = "0" -> 0 [] c = "1" -> 1 [] c = "2" -> 2 [] c = "3" -> 3
      [] c = "4" -> 4 [] c = "5" -> 5 [] c = "6" -> 6 [] c = "7" -> 7
      [] c = "8" -> 8 [] c = "9" -> 9

RECURSIVE SkipSpace(_, _)
\* index of the first character at or after i that is not white space
SkipSpace(s, i) ==
    IF i <= Len(s) /\ s[i] = " " THEN SkipSpace(s, i + 1) ELSE i

RECURSIVE DigitsEnd(_, _)
\* index just past the run of digits that starts at i
DigitsEnd(s, i) ==
    IF i <= Len(s) /\ s[i] \in DigitChars THEN DigitsEnd(s, i + 1) ELSE i

RECURSIVE DigitsValue(_, _, _, _)
\* acc extended by the digits s[i], ..., s[j-1], skipping a '.'
DigitsValue(s, i, j, acc) ==
    IF i >= j THEN acc
    ELSE IF s[i] = "." THEN DigitsValue(s, i + 1, j, acc)
    ELSE DigitsValue(s, i + 1, j, acc * 10 + DigitVal(s[i]))

RECURSIVE Normalize(_, _, _)
\* the same value without trailing zeros in the fraction
Normalize(neg, mant, scale) ==
    IF scale > 0 /\ mant % 10 = 0
    THEN Normalize(neg, mant \div 10, scale - 1)
    ELSE [neg |-> neg, mant |-> mant, scale |-> scale]

\* an atof that looks for the number anywhere in the string
atofSearching(s) ==
    LET ds == SelectSeq(s, LAMBDA c : c \in DigitChars)
    IN  IF ds = << >> THEN Zero
        ELSE [neg |-> FALSE, mant |-> DigitsValue(ds, 1, Len(ds) + 1, 0),
              scale |-> 0]

\* atof(s.c_str()): the longest numeric prefix, 0.0 when there is none
atof(s) ==
    LET i0     == SkipSpace(s, 1)
        signed == i0 <= Len(s) /\ s[i0] \in {"-", "+"}
        neg    == i0 <= Len(s) /\ s[i0] = "-"
        i1     == IF signed THEN i0 + 1 ELSE i0
        i2     == DigitsEnd(s, i1)
        hasDot == i2 <= Len(s) /\ s[i2] = "."
        i3     == IF hasDot THEN DigitsEnd(s, i2 + 1) ELSE i2
        nInt   == i2 - i1
        nFrac  == IF hasDot THEN i3 - (i2 + 1) ELSE 0
    IN  IF nInt + nFrac = 0 THEN Zero
        ELSE Normalize(neg, DigitsValue(s, i1, i3, 0), nFrac)

----------------------------------------------------------------------------
(* Json::Value *)

JsonBase == [kind |-> "null", i |-> 0, d |-> Zero, s |-> << >>, b |-> FALSE,
             o |-> << >>]

JsonInt(n)    == [JsonBase EXCEPT !.kind = "int", !.i = n]
JsonReal(x)   == [JsonBase EXCEPT !.kind = "real", !.d = x]
JsonString(t) == [JsonBase EXCEPT !.kind = "string", !.s = t]
JsonBool(v)   == [JsonBase EXCEPT !.kind = "bool", !.b = v]
\* an object, its members kept as opaque text
JsonObject(m) == [JsonBase EXCEPT !.kind = "object", !.o = m]

\* Json::Value(Json::objectValue)
objectValue == JsonObject(<< >>)

\* obj[key] = value
Put(obj, key, value) ==
    [k \in (DOMAIN obj) \cup {key} |-> IF k = key THEN value ELSE obj[k]]

\* the member names a document can have, in the order Json::Value keeps them
MemberOrder == <<"error", "latitude", "localeError", "longitude", "ok",
                 "rawLocale", "schemaVersion", "source", "timezone">>

\* obj.toStyledString(): one line per member, in member order
toStyledString(obj) ==
    LET present(k) == k \in DOMAIN obj
        names      == SelectSeq(MemberOrder, present)
    IN  [n \in 1..Len(names) |-> [key |-> names[n], value |-> obj[names[n]]]]

----------------------------------------------------------------------------
(* The environment of a run *)

\* values the settings store can return for Latitude and Longitude
\* (<< >> is also what a missing key gives)
CoordStrings ==
    { << >>,
      <<"a", "b", "c">>,
      <<"N", "4", "5">>,
      <<"0">>,
      <<"4", "5", ".", "5">>,
      <<"4", "5", ".", "5", "N">>,
      <<"-", "1", "2", "2", ".", "6">> }

\* values the settings store can return for TimeZone
ZoneStrings == { << >>, <<"America/Los_Angeles">> }

\* what can be found at LOCALE_PATH
LocaleFiles == {"missing", "object", "malformed", "tooDeep"}

\* what can be found at OUTPUT_PATH
OutPaths == {"writable", "unwritable"}

NoFile == [exists |-> FALSE, content |-> << >>]

NoRun == [ran |-> FALSE]

----------------------------------------------------------------------------
(* loadJsonFile *)

\* the locale object of a well-formed locale file
LocaleObject == JsonObject(<<"\"holidays\": [\"2024-12-25\"]">>)

\* loadJsonFile(path, out, err) on a file in state f: the return value, out
\* and err afterwards, and whether Json::parseFromStream threw
loadJsonFile(path, f, out, err) ==
    CASE f = "missing" ->
           [ret |-> FALSE, out |-> out,
            err |-> <<"Unable to open ", path>>, threw |-> FALSE]
      [] f = "object" ->
           [ret |-> TRUE, out |-> LocaleObject, err |-> << >>, threw |-> FALSE]
      [] f = "malformed" ->
           [ret |-> FALSE, out |-> out,
            err |-> <<"* Line 1, Column 1\n  Syntax error">>, threw |-> FALSE]
      [] f = "tooDeep" ->
           [ret |-> FALSE, out |-> out, err |-> err, threw |-> TRUE]

----------------------------------------------------------------------------
(* main *)

CoordError == <<"Latitude/Longitude not present (or zero) in FPP settings.">>

ZoneError == <<"Timezone not present in FPP settings.">>

\* Json::Value root(Json::objectValue) with schemaVersion and source set
RootInit ==
    Put(Put(<< >>, "schemaVersion", JsonInt(1)),
        "source", JsonString(<<"gcs-export">>))

Init ==
    /\ pc = "start"
    /\ root = RootInit
    /\ latStr = << >>
    /\ lonStr = << >>
    /\ tz = << >>
    /\ lat = Zero
    /\ lon = Zero
    /\ ok = TRUE
    /\ localeFile = "unread"
    /\ outPath = "unopened"
    /\ file = NoFile
    /\ stderr = << >>
    /\ calls = << >>
    /\ exitCode = << >>
    /\ prev = NoRun

\* std::string latStr = getSetting("Latitude")
GetLatitude(values) ==
    /\ pc = "start"
    /\ \E v \in values : latStr' = v
    /\ calls' = Append(calls, "getSetting(Latitude)")
    /\ pc' = "gotLatitude"
    /\ UNCHANGED <<root, lonStr, tz, lat, lon, ok, localeFile, outPath, file,
                   stderr, exitCode, prev>>

\* std::string lonStr = getSetting("Longitude")
GetLongitude(values) ==
    /\ pc = "gotLatitude"
    /\ \E v \in values : lonStr' = v
    /\ calls' = Append(calls, "getSetting(Longitude)")
    /\ pc' = "gotLongitude"
    /\ UNCHANGED <<root, latStr, tz, lat, lon, ok, localeFile, outPath, file,
                   stderr, exitCode, prev>>

\* std::string tz = getSetting("TimeZone")
GetTimeZone(values) ==
    /\ pc = "gotLongitude"
    /\ \E v \in values : tz' = v
    /\ calls' = Append(calls, "getSetting(TimeZone)")
    /\ pc' = "gotTimeZone"
    /\ UNCHANGED <<root, latStr, lonStr, lat, lon, ok, localeFile, outPath,
                   file, stderr, exitCode, prev>>

\* the coordinate a setting string stands for
ParseCoord(str) == IF str = << >> THEN Zero ELSE atof(str)

\* lat, lon from the strings; root["latitude"], ["longitude"], ["timezone"]
ParseSettings ==
    /\ pc = "gotTimeZone"
    /\ lat' = ParseCoord(latStr)
    /\ lon' = ParseCoord(lonStr)
    /\ root' = Put(Put(Put(root, "latitude", JsonReal(lat')),
                       "longitude", JsonReal(lon')),
                   "timezone", JsonString(tz))
    /\ pc' = "parsed"
    /\ UNCHANGED <<latStr, lonStr, tz, ok, localeFile, outPath, file, stderr,
                   calls, exitCode, prev>>

\* a locale block that gives up when loadJsonFile returns false
LoadLocaleFatal(files) ==
    /\ pc = "parsed"
    /\ \E f \in files :
         LET r == loadJsonFile(LOCALE_PATH, f, objectValue, << >>)
         IN  /\ localeFile' = f
             /\ IF r.threw
                THEN /\ pc' = "aborted"
                     /\ UNCHANGED <<root, stderr, exitCode>>
                ELSE IF r.ret
                THEN /\ pc' = "localeDone"
                     /\ root' = Put(root, "rawLocale", r.out)
                     /\ UNCHANGED <<stderr, exitCode>>
                ELSE /\ pc' = "done"
                     /\ exitCode' = <<2>>
                     /\ stderr' = Append(stderr, <<"ERROR: ">> \o r.err)
                     /\ UNCHANGED root
    /\ calls' = Append(calls, "loadJsonFile")
    /\ UNCHANGED <<latStr, lonStr, tz, lat, lon, ok, outPath, file, prev>>

\* the locale block: rawLocale from the file, or the empty object and
\* localeError; an exception of the parser leaves main through no handler
LoadLocale(files) ==
    /\ pc = "parsed"
    /\ \E f \in files :
         LET r == loadJsonFile(LOCALE_PATH, f, objectValue, << >>)
         IN  /\ localeFile' = f
             /\ IF r.threw
                THEN /\ pc' = "aborted"
                     /\ UNCHANGED <<root, stderr>>
                ELSE /\ pc' = "localeDone"
                     /\ IF r.ret
                        THEN /\ root' = Put(root, "rawLocale", r.out)
                             /\ UNCHANGED stderr
                        ELSE /\ root' = Put(Put(root, "rawLocale", objectValue),
                                            "localeError", JsonString(r.err))
                             /\ stderr' = Append(stderr, <<"WARN: ">> \o r.err)
    /\ calls' = Append(calls, "loadJsonFile")
    /\ UNCHANGED <<latStr, lonStr, tz, lat, lon, ok, outPath, file, exitCode,
                   prev>>

\* a latitude/longitude check that wants both to be zero
ValidateCoordsBoth ==
    /\ pc = "localeDone"
    /\ IF IsZero(lat) /\ IsZero(lon)
       THEN /\ ok' = FALSE
            /\ root' = Put(root, "error", JsonString(CoordError))
            /\ stderr' = Append(stderr, <<"WARN: ">> \o CoordError)
       ELSE /\ ok' = TRUE
            /\ UNCHANGED <<root, stderr>>
    /\ calls' = Append(calls, "validateCoords")
    /\ pc' = "coordsChecked"
    /\ UNCHANGED <<latStr, lonStr, tz, lat, lon, localeFile, outPath, file,
                   exitCode, prev>>

\* bool ok = true; the latitude/longitude check
ValidateCoords ==
    /\ pc = "localeDone"
    /\ IF IsZero(lat) \/ IsZero(lon)
       THEN /\ ok' = FALSE
            /\ root' = Put(root, "error", JsonString(CoordError))
            /\ stderr' = Append(stderr, <<"WARN: ">> \o CoordError)
       ELSE /\ ok' = TRUE
            /\ UNCHANGED <<root, stderr>>
    /\ calls' = Append(calls, "validateCoords")
    /\ pc' = "coordsChecked"
    /\ UNCHANGED <<latStr, lonStr, tz, lat, lon, localeFile, outPath, file,
                   exitCode, prev>>

\* the timezone check, then root["ok"] = ok
ValidateZone ==
    /\ pc = "coordsChecked"
    /\ IF tz = << >>
       THEN /\ ok' = FALSE
            /\ root' = Put(Put(root, "error", JsonString(ZoneError)),
                           "ok", JsonBool(FALSE))
            /\ stderr' = Append(stderr, <<"WARN: ">> \o ZoneError)
       ELSE /\ ok' = ok
            /\ root' = Put(root, "ok", JsonBool(ok))
            /\ UNCHANGED stderr
    /\ calls' = Append(calls, "validateZone")
    /\ pc' = "validated"
    /\ UNCHANGED <<latStr, lonStr, tz, lat, lon, localeFile, outPath, file,
                   exitCode, prev>>

\* the file after a stream opened it for appending
TruncatedNot(f) == [exists |-> TRUE, content |-> f.content]

\* the file after std::ofstream opened it: created or truncated
Truncated(f) == [exists |-> TRUE, content |-> << >>]

\* an open that empties the file before it finds it cannot write to it
OpenOutputClobbering ==
    /\ pc = "validated"
    /\ \E p \in OutPaths :
         /\ outPath' = p
         /\ file' = Truncated(file)
         /\ IF p = "unwritable"
            THEN /\ stderr' = Append(stderr,
                                     <<"ERROR: Unable to write ", OUTPUT_PATH>>)
                 /\ exitCode' = <<2>>
                 /\ pc' = "done"
            ELSE /\ pc' = "opened"
                 /\ UNCHANGED <<stderr, exitCode>>
    /\ calls' = Append(calls, "open")
    /\ UNCHANGED <<root, latStr, lonStr, tz, lat, lon, ok, localeFile, prev>>

\* an open that does not wait for the timezone check
OpenOutputEarly ==
    /\ pc \in {"coordsChecked", "validated"}
    /\ \E p \in OutPaths :
         /\ outPath' = p
         /\ IF p = "unwritable"
            THEN /\ stderr' = Append(stderr,
                                     <<"ERROR: Unable to write ", OUTPUT_PATH>>)
                 /\ exitCode' = <<2>>
                 /\ pc' = "done"
                 /\ UNCHANGED file
            ELSE /\ file' = Truncated(file)
                 /\ pc' = "opened"
                 /\ UNCHANGED <<stderr, exitCode>>
    /\ calls' = Append(calls, "open")
    /\ UNCHANGED <<root, latStr, lonStr, tz, lat, lon, ok, localeFile, prev>>

\* std::ofstream out(OUTPUT_PATH); if (!out) return 2
OpenOutput ==
    /\ pc = "validated"
    /\ \E p \in OutPaths :
         /\ outPath' = p
         /\ IF p = "unwritable"
            THEN /\ stderr' = Append(stderr,
                                     <<"ERROR: Unable to write ", OUTPUT_PATH>>)
                 /\ exitCode' = <<2>>
                 /\ pc' = "done"
                 /\ UNCHANGED file
            ELSE /\ file' = Truncated(file)
                 /\ pc' = "opened"
                 /\ UNCHANGED <<stderr, exitCode>>
    /\ calls' = Append(calls, "open")
    /\ UNCHANGED <<root, latStr, lonStr, tz, lat, lon, ok, localeFile, prev>>

\* the file after text was sent to the stream and n of its lines reached it
Written(f, text, n) ==
    [exists |-> TRUE, content |-> f.content \o SubSeq(text, 1, n)]

\* out << root.toStyledString(); out.close(); return ok ? 0 : 1
\* (the state of the stream is not looked at after the open; a write that
\* fails leaves the first n lines, n among cuts)
WriteOutput(cuts) ==
    /\ pc = "opened"
    /\ LET text == toStyledString(root)
       IN  \E n \in { c \in cuts : c < Len(text) } \cup {Len(text)} :
             /\ file' = Written(file, text, n)
             /\ outPath' = IF n = Len(text) THEN "written" ELSE "writeFailed"
    /\ exitCode' = IF ok THEN <<0>> ELSE <<1>>
    /\ calls' = Append(calls, "write")
    /\ pc' = "done"
    /\ UNCHANGED <<root, latStr, lonStr, tz, lat, lon, ok, localeFile, stderr,
                   prev>>

\* what a finished run leaves for the comparison with the next one
RunRecord ==
    [ran |-> TRUE, latStr |-> latStr, lonStr |-> lonStr, tz |-> tz,
     localeFile |-> localeFile, outPath |-> outPath, pc |-> pc,
     exitCode |-> exitCode, file |-> file]

\* the scheduler starts the program again (remember: keep the finished run
\* for the comparison with the one that starts)
RunAgain(remember) ==
    /\ pc \in {"done", "aborted"}
    /\ prev' = IF remember THEN RunRecord ELSE prev
    /\ pc' = "start"
    /\ root' = RootInit
    /\ latStr' = << >>
    /\ lonStr' = << >>
    /\ tz' = << >>
    /\ lat' = Zero
    /\ lon' = Zero
    /\ ok' = TRUE
    /\ localeFile' = "unread"
    /\ outPath' = "unopened"
    /\ stderr' = << >>
    /\ calls' = << >>
    /\ exitCode' = << >>
    /\ UNCHANGED file

\* a failed write can stop after any line
AnyCut == 0..Len(MemberOrder)

\* a failed write that stops before the first line
FirstCut == {0}

Next ==
    \/ GetLatitude(CoordStrings)
    \/ GetLongitude(CoordStrings)
    \/ GetTimeZone(ZoneStrings)
    \/ ParseSettings
    \/ LoadLocale(LocaleFiles)
    \/ ValidateCoords
    \/ ValidateZone
    \/ OpenOutput
    \/ WriteOutput(AnyCut)
    \/ RunAgain(FALSE)

Spec == Init /\ [][Next]_vars

\* the settings values of the runs that are compared with one another
PairCoordStrings == { << >>, <<"a", "b", "c">>, <<"4", "5", ".", "5">> }

NextPair ==
    \/ GetLatitude(PairCoordStrings)
    \/ GetLongitude(PairCoordStrings)
    \/ GetTimeZone(ZoneStrings)
    \/ ParseSettings
    \/ LoadLocale(LocaleFiles)
    \/ ValidateCoords
    \/ ValidateZone
    \/ OpenOutput
    \/ WriteOutput(FirstCut)
    \/ RunAgain(TRUE)

\* runs in sequence, each one remembering the run before it
SpecPair == Init /\ [][NextPair]_vars

----------------------------------------------------------------------------
(* Vocabulary of the properties *)

\* pc values at which root["ok"] has been stored
OkStored == pc \in {"validated", "opened", "done"}

\* pc values at which the locale block is behind
PastLocale == pc \in {"localeDone", "coordsChecked", "validated", "opened", "done"}

\* pc values at which lat, lon and the three settings members are set
PastParse == pc = "parsed" \/ PastLocale \/ (pc = "aborted")

\* loadJsonFile returned false for this run's locale file
LocaleFailed == localeFile \in {"missing", "malformed"}

\* the output file holds the whole document of this run
DocumentWritten ==
    /\ pc = "done"
    /\ outPath = "written"
    /\ file.exists
    /\ file.content = toStyledString(root)

\* the diagnostic texts in a written text
Diagnostics(content) ==
    { content[n].value.s :
        n \in { m \in DOMAIN content :
                  content[m].key \in {"error", "errors", "localeError"} } }

\* the elements of a sequence
Range(seq) == { seq[n] : n \in DOMAIN seq }

\* s is the beginning of t
IsPrefix(s, t) == Len(s) <= Len(t) /\ SubSeq(t, 1, Len(s)) = s

\* the string begins, after white space, a sign and a point, with a digit
HasNumericPrefix(str) ==
    \E k \in DOMAIN str :
      /\ str[k] \in DigitChars
      /\ \E a \in 0..(k - 1) :
           /\ \A n \in 1..a : str[n] = " "
           /\ SubSeq(str, a + 1, k - 1) \in
                { << >>, <<"+">>, <<"-">>, <<".">>, <<"+", ".">>, <<"-", ".">> }

\* the steps of a run that writes, in their order
FullOrder ==
    <<"getSetting(Latitude)", "getSetting(Longitude)", "getSetting(TimeZone)",
      "loadJsonFile", "validateCoords", "validateZone", "open", "write">>

\* this run and the one before it got the same three settings values
SameSettings ==
    /\ prev.ran
    /\ prev.latStr = latStr
    /\ prev.lonStr = lonStr
    /\ prev.tz = tz

----------------------------------------------------------------------------
(* C1 *)

\* C1: once main has stored root["ok"], ok is false exactly when the
\* document's latitude is 0, or its longitude is 0, or its timezone is
\* empty, whatever the locale load gave.
C1_OkIffValid ==
    OkStored =>
      /\ "ok" \in DOMAIN root
      /\ root["ok"].kind = "bool"
      /\ root["ok"].b = ok
      /\ (root["ok"].b = FALSE) <=>
           \/ IsZero(root["latitude"].d)
           \/ IsZero(root["longitude"].d)
           \/ root["timezone"].s = << >>

\* a run with good coordinates, no timezone and a failed locale load
C1_Witness ==
    /\ pc = "done"
    /\ ~IsZero(lat) /\ ~IsZero(lon) /\ tz = << >>
    /\ localeFile = "missing"
    /\ root["ok"].b = FALSE

----------------------------------------------------------------------------
(* C2 *)

\* C2: a written document of a run with a zero coordinate and an empty
\* timezone records both the coordinate diagnostic and the timezone
\* diagnostic.
C2_BothDiagnosticsRecorded ==
    (DocumentWritten /\ (IsZero(lat) \/ IsZero(lon)) /\ tz = << >>) =>
      /\ CoordError \in Diagnostics(file.content)
      /\ ZoneError \in Diagnostics(file.content)

----------------------------------------------------------------------------
(* C3 *)

\* C3: a run whose main returned has exit code 0, 1 or 2: 0 exactly when
\* the whole document was written and ok is true, 1 exactly when it was
\* written and ok is false, 2 exactly when the output file could not be
\* opened or written, and then no document was written.
C3_ExitCodeContract ==
    (pc = "done") =>
      /\ exitCode \in {<<0>>, <<1>>, <<2>>}
      /\ (exitCode = <<0>>) <=> (DocumentWritten /\ ok)
      /\ (exitCode = <<1>>) <=> (DocumentWritten /\ ~ok)
      /\ (exitCode = <<2>>) <=> (outPath \in {"unwritable", "writeFailed"})
      /\ (exitCode = <<2>>) => ~DocumentWritten

----------------------------------------------------------------------------
(* C4 *)

----------------------------------------------------------------------------
(* C5 *)

\* C5: a run whose output path could not be opened has exit code 2, sent an
\* error line that names OUTPUT_PATH, wrote nothing, and leaves the file as
\* the run before left it (absent if there was no file).
C5_OpenFailureKeepsFile ==
    (pc = "done" /\ outPath = "unwritable") =>
      /\ exitCode = <<2>>
      /\ \E n \in DOMAIN stderr :
           /\ stderr[n][1] = "ERROR: Unable to write "
           /\ OUTPUT_PATH \in Range(stderr[n])
      /\ "write" \notin Range(calls)
      /\ file = IF prev.ran THEN prev.file ELSE NoFile

\* an open that fails after a run that wrote its document
C5_Witness ==
    /\ pc = "done"
    /\ outPath = "unwritable"
    /\ prev.ran
    /\ prev.outPath = "written"
    /\ file.exists
    /\ Len(file.content) > 0

----------------------------------------------------------------------------
(* C6 *)

\* C6: the first call of a run is LoadSettings with the media root, it is
\* made once, and so every getSetting comes after it.
C6_SettingsLoadedFirst ==
    (calls # << >>) =>
      /\ calls[1] = "LoadSettings(/home/fpp/media)"
      /\ Cardinality({ n \in DOMAIN calls :
                         calls[n] = "LoadSettings(/home/fpp/media)" }) = 1

----------------------------------------------------------------------------
(* C7 *)

\* C7: no run is terminated by an exception of a collaborator: a run in
\* which the locale parser threw still finishes with exit code 0, 1 or 2.
C7_ExceptionIsSoft ==
    /\ pc # "aborted"
    /\ (pc = "done") => exitCode \in {<<0>>, <<1>>, <<2>>}

----------------------------------------------------------------------------
(* C8 *)

----------------------------------------------------------------------------
(* C9 *)

\* C9: when a run has written its document and the run before it, from the
\* same three settings values and the same locale file, had written its
\* own, the file is now what that run left, although the two runs started
\* from different files; the file holds the lines of this run's document
\* and nothing else.
C9_FileDeterminedByInputs ==
    /\ (pc = "done" /\ outPath = "written") =>
         file.content = toStyledString(root)
    /\ (pc = "done" /\ outPath = "written" /\ SameSettings
          /\ prev.localeFile = localeFile /\ prev.outPath = "written") =>
         file = prev.file

\* two runs in a row with the same inputs, both writing
C9_Witness ==
    /\ pc = "done"
    /\ outPath = "written"
    /\ SameSettings
    /\ prev.localeFile = localeFile
    /\ prev.outPath = "written"
    /\ Len(file.content) > 0

----------------------------------------------------------------------------
(* C10 *)

\* C10: the steps of a run are a beginning of: the three lookups, the locale
\* load, the two checks, the open, the write, each once; the file changes
\* only in the open and the write, after root["ok"] was stored, and what
\* reaches it are lines of the finished document; a written document has the
\* final ok and every diagnostic of root.
C10_OrderedOnce ==
    /\ [](IsPrefix(calls, FullOrder))
    /\ [](DocumentWritten =>
            /\ [key |-> "ok", value |-> JsonBool(ok)] \in Range(file.content)
            /\ \A k \in {"error", "localeError"} \cap DOMAIN root :
                 root[k].s \in Diagnostics(file.content))
    /\ [][file' # file =>
            /\ pc \in {"validated", "opened"}
            /\ root' = root
            /\ "ok" \in DOMAIN root
            /\ root["ok"].b = ok
            /\ IsPrefix(file'.content, toStyledString(root))]_vars

\* a run that wrote a document with a diagnostic in it
C10_Witness ==
    /\ DocumentWritten
    /\ calls = FullOrder
    /\ "error" \in DOMAIN root
    /\ "localeError" \in DOMAIN root

====
